---- MODULE Spec2Model ----
(***************************************************************************)
(* Model of the resampling pipeline of evaluation/lib/utils.py:            *)
(* resample_speed_data, resample_edge_data, _finalize_resampling and the   *)
(* per-edge fan-out _resample_data_per_edge with its three public          *)
(* wrappers.                                                               *)
(*                                                                         *)
(* Instants are whole seconds since the epoch: every pd.to_datetime(...)   *)
(* of the source takes nanoseconds and SECOND_TO_NANO_SECOND cancels in    *)
(* every comparison and difference the pipeline makes.                     *)
(*                                                                         *)
(* A cell value is an exact rational [n, d] with d > 0, or NaN (d = 0).    *)
(* A DataFrame with a DatetimeIndex of fixed frequency (what groupby with  *)
(* pd.Grouper and what reindex over pd.date_range return) is kept as its   *)
(* index [lo, hi, step] and the cells of its rows; the per-second table of *)
(* _finalize_resampling is kept as the aggregated table it was built from  *)
(* and the parameters of the statements applied to it, and Cell gives the  *)
(* value those statements compute for a row and a column.                  *)
(***************************************************************************)
EXTENDS Integers, Sequences, FiniteSets, TLC

VARIABLES pc, fn, df, args, result, df2, result2

vars == <<pc, fn, df, args, result, df2, result2>>

----------------------------------------------------------------------------
(* Program constants *)

HOUR_TO_SECOND == 60 * 60

DAY_SECONDS == 86400

MINUTE_SECONDS == 60

DEFAULT_WINDOW == 15

TRAVERSAL_SPEEDS_GROUPER ==
    << [col |-> "temporalMeanSpeed", how |-> "mean"],
       [col |-> "spatialMeanSpeed", how |-> "mean"],
       [col |-> "samples", how |-> "sum"] >>

EDGE_DATA_GROUPER == << [col |-> "speed", how |-> "mean"] >>

----------------------------------------------------------------------------
(* Bounds of the model *)

MaxRows == 3

----------------------------------------------------------------------------
(* Cell values: exact rationals and NaN *)

NaN == [n |-> 0, d |-> 0]

Num(k) == [n |-> k, d |-> 1]

IsNaN(v) == v.d = 0

Abs(x) == IF x < 0 THEN -x ELSE x

RECURSIVE Gcd(_, _)
Gcd(a, b) == IF b = 0 THEN a ELSE Gcd(b, a % b)

Rat(n, d) == LET g == Gcd(Abs(n), d) IN [n |-> n \div g, d |-> d \div g]

RatAdd(a, b) == Rat(a.n * b.d + b.n * a.d, a.d * b.d)

RatDivInt(a, k) == Rat(a.n, a.d * k)

RatLeq(a, b) == a.n * b.d <= b.n * a.d

Max(S) == CHOOSE x \in S : \A y \in S : y <= x

Min(S) == CHOOSE x \in S : \A y \in S : x <= y

(* the values of a sequence that are not NaN, in order *)
Valid(vs) == SelectSeq(vs, LAMBDA v : ~IsNaN(v))

RECURSIVE SumSeq(_)
SumSeq(vs) == IF vs = <<>> THEN Num(0) ELSE RatAdd(Head(vs), SumSeq(Tail(vs)))

(* pandas' mean, sum and first of a group: NaN cells are skipped *)
AggMean(vs) == IF Valid(vs) = <<>> THEN NaN ELSE RatDivInt(SumSeq(Valid(vs)), Len(Valid(vs)))

AggSum(vs) == SumSeq(Valid(vs))

AggFirst(vs) == IF Valid(vs) = <<>> THEN NaN ELSE Head(Valid(vs))

AggCell(how, vs) ==
    CASE how = "mean" -> AggMean(vs)
      [] how = "sum" -> AggSum(vs)
      [] how = "first" -> AggFirst(vs)

----------------------------------------------------------------------------
(* Indexes of fixed frequency *)

EmptyIndex == [lo |-> 0, hi |-> -1, step |-> 1]

InIndex(ix, t) == ix.lo <= t /\ t <= ix.hi /\ (t - ix.lo) % ix.step = 0

IndexSize(ix) == IF ix.hi < ix.lo THEN 0 ELSE (ix.hi - ix.lo) \div ix.step + 1

IndexSet(ix) == {ix.lo + k * ix.step : k \in 0..(IndexSize(ix) - 1)}

(* .loc[(index >= from) & (index <= to)]: the rows of ix in [from, to] *)
(* variant: the upper bound of the clip taken exclusive *)
ClipIndexUpperExclusive(ix, from, to) ==
    LET first == IF ix.lo >= from THEN ix.lo
                 ELSE ix.lo + ((from - ix.lo + ix.step - 1) \div ix.step) * ix.step
        last == IF ix.hi < to THEN ix.hi
                ELSE ix.lo + ((to - 1 - ix.lo) \div ix.step) * ix.step
    IN IF IndexSize(ix) = 0 \/ to <= ix.lo \/ last < first THEN EmptyIndex
       ELSE [lo |-> first, hi |-> last, step |-> ix.step]

ClipIndex(ix, from, to) ==
    LET first == IF ix.lo >= from THEN ix.lo
                 ELSE ix.lo + ((from - ix.lo + ix.step - 1) \div ix.step) * ix.step
        last == IF ix.hi <= to THEN ix.hi
                ELSE ix.lo + ((to - ix.lo) \div ix.step) * ix.step
    IN IF IndexSize(ix) = 0 \/ to < ix.lo \/ last < first THEN EmptyIndex
       ELSE [lo |-> first, hi |-> last, step |-> ix.step]

----------------------------------------------------------------------------
(* Input frames: rows in index order, each with its instant, its entity    *)
(* and its cells; columns in the frame's column order.                     *)

HasColumn(cols, c) == \E i \in 1..Len(cols) : cols[i] = c

(* a cell that pandas' count counts *)
NotNull(row, c) == IF c = "connectionID" THEN TRUE ELSE ~IsNaN(row.cells[c])

(* pd.Grouper(freq=window): the left-closed bucket of width window minutes *)
(* variant: instants rounded up to the next bucket start *)
BucketRoundedUp(t, window) ==
    ((t + window * MINUTE_SECONDS - 1) \div (window * MINUTE_SECONDS)) * (window * MINUTE_SECONDS)

Bucket(t, window) == (t \div (window * MINUTE_SECONDS)) * (window * MINUTE_SECONDS)

RowsInBucket(rows, b, window) == SelectSeq(rows, LAMBDA r : Bucket(r.time, window) = b)

ColumnValues(rows, c) == [i \in 1..Len(rows) |-> rows[i].cells[c]]

Fail(e) == [error |-> e]

IsError(x) == x.error # "none"

GrouperColumns(grouper) == [i \in 1..Len(grouper) |-> grouper[i].col]

(* dict assignment: an existing key keeps its place, a new one goes last *)
SetKey(grouper, c, how) ==
    IF HasColumn(GrouperColumns(grouper), c)
    THEN [i \in 1..Len(grouper) |-> IF grouper[i].col = c THEN [col |-> c, how |-> how] ELSE grouper[i]]
    ELSE Append(grouper, [col |-> c, how |-> how])

(* tmp_df['samples'] = groupby(Grouper).transform('count').iloc[:, 0] *)
WithSamples(frame, window) ==
    LET first == frame.columns[1]
        count(r) == Len(SelectSeq(RowsInBucket(frame.rows, Bucket(r.time, window), window),
                                  LAMBDA q : NotNull(q, first)))
        cols == IF HasColumn(frame.columns, "samples") THEN frame.columns
                ELSE Append(frame.columns, "samples")
    IN [columns |-> cols,
        rows |-> [i \in 1..Len(frame.rows) |->
                    [frame.rows[i] EXCEPT !.cells =
                        [c \in {cols[j] : j \in 1..Len(cols)} \ {"connectionID"} |->
                            IF c = "samples" THEN Num(count(frame.rows[i]))
                            ELSE frame.rows[i].cells[c]]]]]

(* groupby(pd.Grouper(freq=window)).agg(grouper): one row for every bucket *)
(* from the first row's to the last row's, empty buckets included          *)
Aggregate(frame, grouper, window) ==
    LET cols == GrouperColumns(grouper)
        times == {frame.rows[i].time : i \in 1..Len(frame.rows)}
        ix == IF frame.rows = <<>> THEN EmptyIndex
              ELSE [lo |-> Bucket(Min(times), window), hi |-> Bucket(Max(times), window),
                    step |-> window * MINUTE_SECONDS]
    IN IF \E i \in 1..Len(cols) : ~HasColumn(frame.columns, cols[i])
       THEN Fail("KeyError")
       ELSE [error |-> "none", index |-> ix, columns |-> cols,
             data |-> [t \in IndexSet(ix) |->
                         [c \in {cols[j] : j \in 1..Len(cols)} |->
                             LET how == (CHOOSE g \in {grouper[j] : j \in 1..Len(grouper)} : g.col = c).how
                             IN AggCell(how, ColumnValues(RowsInBucket(frame.rows, t, window), c))]]]

(* fillna(value=0) and astype(int) of the samples column *)
FillSamples(table) ==
    [table EXCEPT !.data = [t \in DOMAIN table.data |->
        [table.data[t] EXCEPT !["samples"] = IF IsNaN(@) THEN Num(0) ELSE Num(@.n \div @.d)]]]

----------------------------------------------------------------------------
(* _finalize_resampling *)

(* pd.date_range(start=0, end=86400 s, freq='S') *)
DayIndex == [lo |-> 0, hi |-> DAY_SECONDS, step |-> 1]

(* limit = int(window.lower().removesuffix('min')) * 60 *)
(* variant: a fill that stops one row earlier *)
FillLimitOneLess(window) == window * MINUTE_SECONDS - 1

FillLimit(window) == window * MINUTE_SECONDS

(* variant: the window closed on the left *)
InRollingWindowClosedLeft(u, t, R) == t - R <= u /\ u < t

(* the rows rolling(window=R, closed='neither') averages for the row at t *)
InRollingWindow(u, t, R) == t - R < u /\ u < t

(* reindex(index, fill_value=NaN): a row of the day that the aggregated    *)
(* table has keeps its cells, any other row is NaN                         *)
ReindexCell(src, t, c) ==
    IF InIndex(src.index, t) /\ InIndex(DayIndex, t) THEN src.data[t][c] ELSE NaN

(* the first row of ix at or after instant a *)
FirstAtOrAfter(ix, a) ==
    IF a <= ix.lo THEN ix.lo ELSE ix.lo + ((a - ix.lo + ix.step - 1) \div ix.step) * ix.step

(* the last row of ix at or before instant a (below ix.lo when there is none) *)
LastAtOrBefore(ix, a) ==
    IF a >= ix.hi THEN ix.hi
    ELSE IF a < ix.lo THEN ix.lo - ix.step
    ELSE ix.lo + ((a - ix.lo) \div ix.step) * ix.step

(* the cell of the nearest valid row of column c, walking from row u away  *)
(* from t by dir rows of the aggregated table at a time, that is no more   *)
(* than limit seconds from t; NaN when there is none                       *)
RECURSIVE NearestValid(_, _, _, _, _, _)
NearestValid(src, c, u, t, dir, limit) ==
    IF u < src.index.lo \/ u > src.index.hi \/ Abs(t - u) > limit THEN NaN
    ELSE IF ~IsNaN(ReindexCell(src, u, c)) THEN ReindexCell(src, u, c)
    ELSE NearestValid(src, c, u + dir * src.index.step, t, dir, limit)

(* fillna(method=fill_method, limit=limit): a NaN cell takes the nearest   *)
(* valid cell before it (ffill) or after it (bfill) in its column, if that *)
(* is no more than limit rows (seconds) away                               *)
FillCell(src, fill_method, limit, t, c) ==
    IF ~IsNaN(ReindexCell(src, t, c)) THEN ReindexCell(src, t, c)
    ELSE IF IndexSize(src.index) = 0 THEN NaN
    ELSE IF fill_method = "ffill"
    THEN NearestValid(src, c, LastAtOrBefore(src.index, t), t, -1, limit)
    ELSE NearestValid(src, c, FirstAtOrAfter(src.index, t), t, 1, limit)

(* the table before rolling: filled and zero-filled when reindexed, then   *)
(* the timeStamp column set to the row's seconds                           *)
StampedCell(res, t, c) ==
    IF c = "timeStamp" THEN Num(t)
    ELSE IF res.reindexed
         THEN LET v == FillCell(res.src, res.fill_method, res.limit, t, c)
              IN IF IsNaN(v) THEN Num(0) ELSE v
         ELSE res.src.data[t][c]

(* sum and count of the valid cells of column c over the n rows u, u + step, *)
(* ... that lie in the rolling window of the row at t                        *)
RECURSIVE WindowSum(_, _, _, _, _)
WindowSum(res, c, u, n, t) ==
    IF n <= 0 THEN [sum |-> Num(0), count |-> 0]
    ELSE IF n = 1
    THEN LET v == IF InRollingWindow(u, t, res.rolling_window) THEN StampedCell(res, u, c) ELSE NaN
         IN IF IsNaN(v) THEN [sum |-> Num(0), count |-> 0] ELSE [sum |-> v, count |-> 1]
    ELSE LET h == n \div 2
             l == WindowSum(res, c, u, h, t)
             r == WindowSum(res, c, u + h * res.full.step, n - h, t)
         IN [sum |-> RatAdd(l.sum, r.sum), count |-> l.count + r.count]

(* variant: the rolling mean taken over the rows left after the clip *)
RolledCellAfterClip(res, t, c) ==
    LET from == FirstAtOrAfter(res.full, t - res.rolling_window)
        first == IF from < res.index.lo THEN res.index.lo ELSE from
        last == IF t <= res.index.hi THEN t ELSE res.index.hi
        w == WindowSum(res, c, first, (last - first) \div res.full.step + 1, t)
    IN IF w.count = 0 THEN NaN ELSE RatDivInt(w.sum, w.count)

(* rolling(window=R, closed='neither').mean(): the mean of the valid cells *)
(* in the window, NaN when there is none (min_periods is 1)                *)
RolledCell(res, t, c) ==
    LET first == FirstAtOrAfter(res.full, t - res.rolling_window)
        last == IF t <= res.full.hi THEN t ELSE res.full.hi
        w == WindowSum(res, c, first, (last - first) \div res.full.step + 1, t)
    IN IF w.count = 0 THEN NaN ELSE RatDivInt(w.sum, w.count)

(* the value of column c in the row at instant t of a finalized table *)
Cell(res, t, c) ==
    IF res.rolling_window = 0 THEN StampedCell(res, t, c) ELSE RolledCell(res, t, c)

finalize_resampling(dataframe, window, reindex_interval, fill_method, time_frame, rolling_window) ==
    LET full == IF reindex_interval THEN DayIndex ELSE dataframe.index
        src == IF reindex_interval
               THEN [dataframe EXCEPT !.data = [t \in {u \in DOMAIN dataframe.data : InIndex(DayIndex, u)} |-> dataframe.data[t]]]
               ELSE dataframe
    IN [error |-> "none",
        index |-> ClipIndex(full, time_frame[1] * HOUR_TO_SECOND, time_frame[2] * HOUR_TO_SECOND),
        full |-> full,
        columns |-> IF HasColumn(dataframe.columns, "timeStamp") THEN dataframe.columns
                    ELSE Append(dataframe.columns, "timeStamp"),
        src |-> src,
        reindexed |-> reindex_interval,
        fill_method |-> IF reindex_interval THEN fill_method ELSE "none",
        limit |-> IF reindex_interval THEN FillLimit(window) ELSE 0,
        rolling_window |-> rolling_window]

----------------------------------------------------------------------------
(* The single-entity entry points *)

resample_speed_data(dataframe, grouper, window, time_frame, reindex_interval, fill_method, rolling_window) ==
    LET synth == ~HasColumn(dataframe.columns, "sampleAmount")
        counted == IF synth THEN WithSamples(dataframe, window) ELSE dataframe
        new_grouper == IF synth THEN SetKey(grouper, "samples", "mean") ELSE grouper
        tmp_df == Aggregate(counted, new_grouper, window)
    IN IF IsError(tmp_df) THEN tmp_df
       ELSE IF ~HasColumn(tmp_df.columns, "sampleAmount") /\ ~HasColumn(tmp_df.columns, "samples")
       THEN Fail("KeyError")
       ELSE finalize_resampling(
                IF ~HasColumn(tmp_df.columns, "sampleAmount") THEN FillSamples(tmp_df) ELSE tmp_df,
                window, reindex_interval, fill_method, time_frame, rolling_window)

resample_edge_data(dataframe, grouper, window, fill_method, time_frame, reindex_interval, rolling_window) ==
    LET tmp_df == Aggregate(dataframe, grouper, window)
    IN IF IsError(tmp_df) THEN tmp_df
       ELSE finalize_resampling(tmp_df, DEFAULT_WINDOW, reindex_interval, fill_method,
                                time_frame, rolling_window)

----------------------------------------------------------------------------
(* The per-edge fan-out *)

(* the entity identifiers, in the order groupby(level='connectionID') visits them *)
Entities == <<"A", "B">>

ApplyResample(resample_function, dataframe, grouper, window, time_frame, reindex_interval, fill_method, rolling_window) ==
    IF resample_function = "resample_speed_data"
    THEN resample_speed_data(dataframe, grouper, window, time_frame, reindex_interval, fill_method, rolling_window)
    ELSE resample_edge_data(dataframe, grouper, window, fill_method, time_frame, reindex_interval, rolling_window)

(* the columns left after timeStamp became the index level 'time' and      *)
(* connectionID the other index level                                      *)
DataColumns(cols) == SelectSeq(cols, LAMBDA c : c # "timeStamp" /\ c # "connectionID")

(* the keys groupby(level='connectionID') yields: the entities with a row *)
GroupKeys(dataframe) ==
    SelectSeq(Entities, LAMBDA e : \E i \in 1..Len(dataframe.rows) : dataframe.rows[i].connectionID = e)

(* variant: a group frame that keeps the rows of every entity *)
GroupFrameUnfiltered(dataframe, connection) ==
    [columns |-> <<"connectionID">> \o DataColumns(dataframe.columns),
     rows |-> dataframe.rows]

(* group.copy().reset_index(level='connectionID'): the rows of one entity, *)
(* connectionID back as the first column                                   *)
GroupFrame(dataframe, connection) ==
    [columns |-> <<"connectionID">> \o DataColumns(dataframe.columns),
     rows |-> SelectSeq(dataframe.rows, LAMBDA r : r.connectionID = connection)]

(* the loop over the groups: new_df after the groups keys[k..] were added *)
RECURSIVE ConcatGroups(_, _, _, _, _, _)
ConcatGroups(resample_function, dataframe, grouper, cfg, keys, new_df) ==
    IF keys = <<>> \/ IsError(new_df) THEN new_df
    ELSE LET connection == Head(keys)
             current_connection_df ==
                 ApplyResample(resample_function, GroupFrame(dataframe, connection), grouper,
                               cfg.window, cfg.time_frame, cfg.reindex_interval,
                               cfg.fill_method, cfg.rolling_window)
         IN ConcatGroups(resample_function, dataframe, grouper, cfg, Tail(keys),
                         IF IsError(current_connection_df) THEN current_connection_df
                         ELSE [new_df EXCEPT !.blocks =
                                  Append(@, [connectionID |-> connection, table |-> current_connection_df])])

resample_data_per_edge(resample_function, dataframe, grouper, window, reindex_interval, fill_method, time_frame, rolling_window) ==
    IF ~HasColumn(dataframe.columns, "timeStamp") \/ ~HasColumn(dataframe.columns, "connectionID")
    THEN Fail("KeyError")
    ELSE LET new_df == ConcatGroups(resample_function, dataframe, grouper,
                                    [window |-> window, time_frame |-> time_frame,
                                     reindex_interval |-> reindex_interval,
                                     fill_method |-> fill_method, rolling_window |-> rolling_window],
                                    GroupKeys(dataframe), [error |-> "none", blocks |-> <<>>])
         IN IF IsError(new_df) THEN new_df
            ELSE IF new_df.blocks = <<>> THEN Fail("KeyError")
            ELSE new_df

resample_traversal_data_per_edge(dataframe, window, reindex_interval, fill_method, time_frame, rolling_window) ==
    resample_data_per_edge("resample_speed_data", dataframe, TRAVERSAL_SPEEDS_GROUPER, window,
                           reindex_interval, fill_method, time_frame, rolling_window)

resample_edge_data_per_edge(dataframe, window, time_frame, reindex_interval, fill_method, rolling_window) ==
    resample_data_per_edge("resample_speed_data", dataframe, EDGE_DATA_GROUPER, window,
                           reindex_interval, fill_method, time_frame, rolling_window)

resample_custom_data_per_edge(dataframe, grouper, window, reindex_interval, fill_method, time_frame, rolling_window) ==
    resample_data_per_edge("resample_speed_data", dataframe, grouper, window,
                           reindex_interval, fill_method, time_frame, rolling_window)

----------------------------------------------------------------------------
(* Inputs *)

(* instants of the input rows: three in the 15-minute bucket of 22:45, one *)
(* not a multiple of five minutes, then the starts of the buckets of 23:00 *)
(* and 23:15                                                               *)
Times == {81900, 82210, 82500, 82800, 83700}

SchemaColumns(schema) ==
    CASE schema = "edge" -> <<"speed">>
      [] schema = "traversal" -> <<"temporalMeanSpeed", "spatialMeanSpeed", "samples">>
      [] schema = "amount" -> <<"speed", "sampleAmount">>

SchemaGrouper(schema) ==
    CASE schema = "edge" -> EDGE_DATA_GROUPER
      [] schema = "traversal" -> TRAVERSAL_SPEEDS_GROUPER
      [] schema = "amount" -> << [col |-> "speed", how |-> "mean"], [col |-> "sampleAmount", how |-> "sum"] >>

CellChoices(schema) ==
    CASE schema = "edge" -> {[speed |-> NaN], [speed |-> Num(10)], [speed |-> Num(20)]}
      [] schema = "traversal" ->
            {[temporalMeanSpeed |-> Num(10), spatialMeanSpeed |-> Num(12), samples |-> Num(2)],
             [temporalMeanSpeed |-> Num(20), spatialMeanSpeed |-> Num(18), samples |-> Num(4)]}
      [] schema = "amount" -> {[speed |-> Num(10), sampleAmount |-> Num(2)],
                               [speed |-> Num(20), sampleAmount |-> Num(4)]}

Schemas == {"edge", "traversal", "amount"}

RECURSIVE SortedSeq(_)
SortedSeq(S) == IF S = {} THEN <<>> ELSE <<Min(S)>> \o SortedSeq(S \ {Min(S)})

(* a time-indexed frame of one entity: one row per instant of S *)
MkFrame(schema, S, cells) ==
    [columns |-> SchemaColumns(schema),
     rows |-> [i \in 1..Cardinality(S) |->
                 [time |-> SortedSeq(S)[i], connectionID |-> "A", cells |-> cells[SortedSeq(S)[i]]]]]

Cfg(w, tf, re, fm, rw) ==
    [window |-> w, time_frame |-> tf, reindex_interval |-> re, fill_method |-> fm, rolling_window |-> rw]

(* the parameter settings the calls are made with: window in minutes,      *)
(* rolling_window in seconds with 0 for None                               *)
Configs ==
    {Cfg(15, <<0, 24>>, FALSE, "ffill", 0),
     Cfg(15, <<23, 24>>, FALSE, "ffill", 0),
     Cfg(15, <<0, 24>>, FALSE, "ffill", 1800),
     Cfg(15, <<23, 24>>, FALSE, "ffill", 1800),
     Cfg(5, <<0, 24>>, FALSE, "ffill", 0),
     Cfg(5, <<23, 24>>, FALSE, "ffill", 900),
     Cfg(15, <<0, 24>>, TRUE, "ffill", 0),
     Cfg(15, <<0, 24>>, TRUE, "bfill", 0),
     Cfg(5, <<0, 24>>, TRUE, "ffill", 0),
     Cfg(15, <<6, 18>>, TRUE, "ffill", 1800)}

NoResult == [error |-> "unset"]

NoFrame == [columns |-> <<>>, rows |-> <<>>]

----------------------------------------------------------------------------
(* The calls of the single-entity pipeline *)

Init ==
    /\ pc = "ready"
    /\ fn = "none"
    /\ \E schema \in Schemas :
          /\ \E S \in {T \in SUBSET Times : Cardinality(T) <= MaxRows} :
                \E cells \in [S -> CellChoices(schema)] : df = MkFrame(schema, S, cells)
          /\ \E c \in Configs : args = [grouper |-> SchemaGrouper(schema), cfg |-> c]
    /\ result = NoResult
    /\ df2 = NoFrame
    /\ result2 = NoResult

CallResampleSpeedData ==
    /\ pc = "ready"
    /\ result' = resample_speed_data(df, args.grouper, args.cfg.window, args.cfg.time_frame,
                                     args.cfg.reindex_interval, args.cfg.fill_method,
                                     args.cfg.rolling_window)
    /\ fn' = "resample_speed_data"
    /\ pc' = "done"
    /\ UNCHANGED <<df, args, df2, result2>>

CallResampleEdgeData ==
    /\ pc = "ready"
    /\ result' = resample_edge_data(df, args.grouper, args.cfg.window, args.cfg.fill_method,
                                    args.cfg.time_frame, args.cfg.reindex_interval,
                                    args.cfg.rolling_window)
    /\ fn' = "resample_edge_data"
    /\ pc' = "done"
    /\ UNCHANGED <<df, args, df2, result2>>

(* the table a call returned, as the time-indexed frame a caller passes on *)
OutputFrame(res) ==
    [columns |-> res.columns,
     rows |-> [i \in 1..IndexSize(res.index) |->
                 LET t == res.index.lo + (i - 1) * res.index.step
                 IN [time |-> t, connectionID |-> "A",
                     cells |-> [c \in {res.columns[j] : j \in 1..Len(res.columns)} |-> Cell(res, t, c)]]]]

(* the aggregation spec that maps every column to first-valid *)
FirstValidGrouper(cols) == [i \in 1..Len(cols) |-> [col |-> cols[i], how |-> "first"]]

(* resample_speed_data run again on its own output, with the same window,  *)
(* reindex disabled, no rolling window and the full time frame; outputs of *)
(* a reindexed run (86401 rows) are not fed back                           *)
RerunOnOutput ==
    /\ pc = "done"
    /\ fn = "resample_speed_data"
    /\ ~IsError(result)
    /\ ~result.reindexed
    /\ df2' = OutputFrame(result)
    /\ result2' = resample_speed_data(OutputFrame(result), FirstValidGrouper(result.columns),
                                      args.cfg.window, <<0, 24>>, FALSE, "ffill", 0)
    /\ pc' = "rerun"
    /\ UNCHANGED <<fn, df, args, result>>

Next == CallResampleSpeedData \/ CallResampleEdgeData \/ RerunOnOutput

Spec == Init /\ [][Next]_vars

----------------------------------------------------------------------------
(* The calls of the per-edge fan-out *)

EdgeTimes == {81900, 82210, 83700}

EdgeSchemas == {"edge", "traversal"}

EdgeCellChoices(schema) == {c \in CellChoices(schema) : \A k \in DOMAIN c : ~IsNaN(c[k])}

EdgeConfigs ==
    {Cfg(15, <<0, 24>>, FALSE, "ffill", 0),
     Cfg(15, <<23, 24>>, FALSE, "ffill", 1800),
     Cfg(5, <<0, 24>>, FALSE, "ffill", 0),
     Cfg(15, <<0, 24>>, TRUE, "ffill", 0)}

EntityIndex(e) == CHOOSE i \in 1..Len(Entities) : Entities[i] = e

(* a frame as the readers return it: a timeStamp and a connectionID column *)
(* and the measurements, rows ordered by timeStamp; rowsOf[e] gives the    *)
(* cells of entity e at each of its instants                               *)
MkEdgeFrame(schema, rowsOf) ==
    LET present == UNION {{t * Len(Entities) + (EntityIndex(e) - 1) : t \in DOMAIN rowsOf[e]} :
                          e \in DOMAIN rowsOf}
        order == SortedSeq(present)
    IN [columns |-> <<"timeStamp", "connectionID">> \o SchemaColumns(schema),
        rows |-> [i \in 1..Len(order) |->
                    LET t == order[i] \div Len(Entities)
                        e == Entities[(order[i] % Len(Entities)) + 1]
                    IN [time |-> t, connectionID |-> e, cells |-> rowsOf[e][t]]]]

(* the rows one entity can have: at most n instants, each with its cells *)
EntityRows(schema, n) ==
    UNION {[S -> EdgeCellChoices(schema)] : S \in {T \in SUBSET EdgeTimes : Cardinality(T) <= n}}

InitPerEdge ==
    /\ pc = "ready"
    /\ fn = "none"
    /\ \E schema \in EdgeSchemas :
          /\ \E a \in EntityRows(schema, MaxRows) : \E b \in EntityRows(schema, MaxRows) :
                /\ Cardinality(DOMAIN a) + Cardinality(DOMAIN b) <= MaxRows
                /\ df = MkEdgeFrame(schema, [e \in {"A", "B"} |-> IF e = "A" THEN a ELSE b])
          /\ \E c \in EdgeConfigs : args = [grouper |-> SchemaGrouper(schema), cfg |-> c]
    /\ result = NoResult
    /\ df2 = NoFrame
    /\ result2 = NoResult

(* the public wrapper named f, called on dataframe with the arguments a *)
CallPerEdge(f, dataframe, a) ==
    CASE f = "resample_traversal_data_per_edge" ->
            resample_traversal_data_per_edge(dataframe, a.cfg.window, a.cfg.reindex_interval,
                                             a.cfg.fill_method, a.cfg.time_frame, a.cfg.rolling_window)
      [] f = "resample_edge_data_per_edge" ->
            resample_edge_data_per_edge(dataframe, a.cfg.window, a.cfg.time_frame,
                                        a.cfg.reindex_interval, a.cfg.fill_method, a.cfg.rolling_window)
      [] f = "resample_custom_data_per_edge" ->
            resample_custom_data_per_edge(dataframe, a.grouper, a.cfg.window, a.cfg.reindex_interval,
                                          a.cfg.fill_method, a.cfg.time_frame, a.cfg.rolling_window)

CallResampleTraversalDataPerEdge ==
    /\ pc = "ready"
    /\ result' = CallPerEdge("resample_traversal_data_per_edge", df, args)
    /\ fn' = "resample_traversal_data_per_edge"
    /\ pc' = "done"
    /\ UNCHANGED <<df, args, df2, result2>>

CallResampleEdgeDataPerEdge ==
    /\ pc = "ready"
    /\ result' = CallPerEdge("resample_edge_data_per_edge", df, args)
    /\ fn' = "resample_edge_data_per_edge"
    /\ pc' = "done"
    /\ UNCHANGED <<df, args, df2, result2>>

CallResampleCustomDataPerEdge ==
    /\ pc = "ready"
    /\ result' = CallPerEdge("resample_custom_data_per_edge", df, args)
    /\ fn' = "resample_custom_data_per_edge"
    /\ pc' = "done"
    /\ UNCHANGED <<df, args, df2, result2>>

(* the frame with the rows of entity B replaced by the rows other *)
WithRowsOfB(dataframe, schema, other) ==
    MkEdgeFrame(schema,
        [e \in {"A", "B"} |->
            IF e = "B" THEN other
            ELSE LET mine == SelectSeq(dataframe.rows, LAMBDA r : r.connectionID = "A")
                 IN [t \in {mine[i].time : i \in 1..Len(mine)} |->
                        (CHOOSE r \in {mine[i] : i \in 1..Len(mine)} : r.time = t).cells]])

(* the same wrapper called a second time, on a frame that differs from the *)
(* first in the rows of entity B only: B absent, or B with one other row   *)
RerunWithOtherB ==
    /\ pc = "done"
    /\ ~IsError(result)
    /\ \E schema \in EdgeSchemas : \E other \in EntityRows(schema, 1) :
          /\ df.columns = <<"timeStamp", "connectionID">> \o SchemaColumns(schema)
          /\ df2' = WithRowsOfB(df, schema, other)
          /\ df2' # df
    /\ result2' = CallPerEdge(fn, df2', args)
    /\ pc' = "rerun"
    /\ UNCHANGED <<fn, df, args, result>>

NextPerEdge ==
    \/ CallResampleTraversalDataPerEdge
    \/ CallResampleEdgeDataPerEdge
    \/ CallResampleCustomDataPerEdge
    \/ RerunWithOtherB

SpecPerEdge == InitPerEdge /\ [][NextPerEdge]_vars

----------------------------------------------------------------------------
(* Properties *)

Returned(f) == pc = "done" /\ fn = f /\ ~IsError(result)

ReturnedSingle == pc = "done" /\ fn \in {"resample_speed_data", "resample_edge_data"} /\ ~IsError(result)

ColumnSet(cols) == {cols[i] : i \in 1..Len(cols)}

(* the instant of the k-th row of an index, k from 0 *)
RowAt(ix, k) == ix.lo + k * ix.step

(* a valid cell of the aggregated table *)
ValidAt(src, t, c) == InIndex(src.index, t) /\ ~IsNaN(src.data[t][c])

(* the first valid bucket of column c after T, or the second after the day *)
NextPresent(src, T, c) ==
    LET later == {u \in IndexSet(src.index) : u > T /\ ValidAt(src, u, c)}
    IN IF later = {} THEN DAY_SECONDS + 1 ELSE Min(later)

(* a 15-minute window, reindexed, forward-filled, not smoothed *)
FillCase ==
    /\ ReturnedSingle
    /\ args.cfg.window = 15
    /\ args.cfg.reindex_interval
    /\ args.cfg.fill_method = "ffill"
    /\ args.cfg.rolling_window = 0

(* column c holds a value at bucket start T and both neighbouring buckets are absent *)
LoneBucket(src, T, c) ==
    /\ ValidAt(src, T, c)
    /\ ~ValidAt(src, T - 15 * MINUTE_SECONDS, c)
    /\ ~ValidAt(src, T + 15 * MINUTE_SECONDS, c)

(* every returned row from T up to the next present bucket holds V in its  *)
(* first `held` seconds and 0 after them                                   *)
FilledFor(held) ==
    \A c \in ColumnSet(result.src.columns) : \A T \in IndexSet(result.src.index) :
        LoneBucket(result.src, T, c) =>
            \A t \in T..(NextPresent(result.src, T, c) - 1) :
                InIndex(result.index, t) =>
                    Cell(result, t, c) = IF t < T + held THEN result.src.data[T][c] ELSE Num(0)

(* C1, as amended: with reindex, forward fill and a 15-minute window, a    *)
(* value V at bucket start T whose neighbouring buckets are absent is held *)
(* at the 901 seconds T .. T+900, and the output is 0 from T+901 up to the *)
(* next present bucket.                                                    *)
C1_HeldFor901Seconds == FillCase => FilledFor(901)

(* C1 witness: a lone bucket with a non-zero value, still held at T+900 and 0 at T+901 *)
C1_Witness ==
    /\ FillCase
    /\ \E c \in ColumnSet(result.src.columns) : \E T \in IndexSet(result.src.index) :
          /\ LoneBucket(result.src, T, c)
          /\ result.src.data[T][c] # Num(0)
          /\ InIndex(result.index, T + 901)
          /\ Cell(result, T + 900, c) = result.src.data[T][c]
          /\ Cell(result, T + 901, c) = Num(0)

(* C1, as stated: the value is held at exactly the 900 seconds T .. T+899  *)
(* and the output is 0 at T+900.                                           *)
C1_HeldFor900Seconds == FillCase => FilledFor(900)

(* C2: for both single-entity entry points the fill limit used when        *)
(* reindexing is the window the caller passed, in seconds.                 *)
C2_FillLimitFromWindow ==
    (ReturnedSingle /\ args.cfg.reindex_interval) =>
        result.limit = args.cfg.window * MINUTE_SECONDS

(* C3: every returned row has a timeStamp value inside                     *)
(* [start_hour * 3600, end_hour * 3600], whatever the reindex flag and the *)
(* rolling window.                                                         *)
C3_TimeStampInsideFrame ==
    ReturnedSingle =>
        \A k \in 0..(IndexSize(result.index) - 1) :
            LET v == Cell(result, RowAt(result.index, k), "timeStamp")
            IN /\ ~IsNaN(v)
               /\ RatLeq(Num(args.cfg.time_frame[1] * 3600), v)
               /\ RatLeq(v, Num(args.cfg.time_frame[2] * 3600))

(* the sample-count column an input frame already has *)
OwnCountColumns(frame) == ColumnSet(frame.columns) \cap {"samples", "sampleAmount"}

HowOf(grouper, c) == (CHOOSE g \in ColumnSet(grouper) : g.col = c).how

(* a call of resample_speed_data that returned the aggregated buckets as they are *)
PlainBuckets ==
    /\ Returned("resample_speed_data")
    /\ ~args.cfg.reindex_interval
    /\ args.cfg.rolling_window = 0

(* C4: a sample-count column of the input is never overwritten: each       *)
(* bucket's output sample count is the configured aggregation of the       *)
(* input's own sample-count values.                                        *)
C4_OwnSampleCountKept ==
    PlainBuckets =>
        \A c \in OwnCountColumns(df) : \A t \in IndexSet(result.index) :
            Cell(result, t, c) =
                AggCell(HowOf(args.grouper, c),
                        ColumnValues(RowsInBucket(df.rows, t, args.cfg.window), c))

(* C5: without a sample-count column in the input, the samples value of    *)
(* every bucket is the number of input rows of that bucket, 0 for a bucket *)
(* without rows.                                                           *)
C5_SamplesCountRows ==
    (PlainBuckets /\ OwnCountColumns(df) = {}) =>
        \A t \in IndexSet(result.index) :
            Cell(result, t, "samples") = Num(Len(RowsInBucket(df.rows, t, args.cfg.window)))

(* the rows of a returned table: of all its blocks when it is a fan-out's *)
TableRows(res) ==
    IF "blocks" \in DOMAIN res
    THEN LET n(i) == IndexSize(res.blocks[i].table.index)
             sum[k \in 0..Len(res.blocks)] == IF k = 0 THEN 0 ELSE sum[k - 1] + n(k)
         IN sum[Len(res.blocks)]
    ELSE IndexSize(res.index)

(* the rows of a fan-out's result that are indexed under entity e *)
BlocksOf(res, e) == SelectSeq(res.blocks, LAMBDA b : b.connectionID = e)

HasEntity(frame, e) == \E i \in 1..Len(frame.rows) : frame.rows[i].connectionID = e

(* the grouper the wrapper f hands to the fan-out *)
WrapperGrouper(f) ==
    CASE f = "resample_traversal_data_per_edge" -> TRAVERSAL_SPEEDS_GROUPER
      [] f = "resample_edge_data_per_edge" -> EDGE_DATA_GROUPER
      [] f = "resample_custom_data_per_edge" -> args.grouper

(* the single-entity pipeline run on the rows of entity e alone *)
AloneResult(frame, e) ==
    resample_speed_data(
        [columns |-> <<"connectionID">> \o SelectSeq(frame.columns, LAMBDA c : c \notin {"timeStamp", "connectionID"}),
         rows |-> SelectSeq(frame.rows, LAMBDA r : r.connectionID = e)],
        WrapperGrouper(fn), args.cfg.window, args.cfg.time_frame, args.cfg.reindex_interval,
        args.cfg.fill_method, args.cfg.rolling_window)

(* C6: the rows indexed under entity A are the same in two runs that       *)
(* differ only in the rows of entity B, and for an input with both         *)
(* entities the fan-out returns as many rows as the single-entity pipeline *)
(* returns for A alone and for B alone together.                           *)
C6_FanOutNonInterfering ==
    /\ (pc = "rerun" /\ ~IsError(result) /\ ~IsError(result2)) =>
            BlocksOf(result, "A") = BlocksOf(result2, "A")
    /\ (pc \in {"done", "rerun"} /\ ~IsError(result) /\ HasEntity(df, "A") /\ HasEntity(df, "B")) =>
            TableRows(result) = IndexSize(AloneResult(df, "A").index) + IndexSize(AloneResult(df, "B").index)

(* C6 witness: both runs returned rows for A and for B, and B's differ *)
C6_Witness ==
    /\ pc = "rerun"
    /\ ~IsError(result)
    /\ ~IsError(result2)
    /\ HasEntity(df, "A")
    /\ HasEntity(df, "B")
    /\ HasEntity(df2, "B")
    /\ BlocksOf(result, "B") # BlocksOf(result2, "B")
    /\ BlocksOf(result, "A") # <<>>
    /\ IndexSize(AloneResult(df, "A").index) > 0
    /\ IndexSize(AloneResult(df, "B").index) > 0

(* C7: with reindex enabled and the time frame (0, 24) the single-entity   *)
(* pipeline returns exactly the 86401 rows of the seconds 0 .. 86400.      *)
C7_FullDayHas86401Rows ==
    (ReturnedSingle /\ args.cfg.reindex_interval /\ args.cfg.time_frame = <<0, 24>>) =>
        /\ result.index = [lo |-> 0, hi |-> 86400, step |-> 1]
        /\ IndexSize(result.index) = 86401

(* C7 witness: an input of several rows that all fall in one bucket *)
C7_Witness ==
    /\ ReturnedSingle
    /\ args.cfg.reindex_interval
    /\ args.cfg.time_frame = <<0, 24>>
    /\ Len(df.rows) >= 2
    /\ IndexSize(result.src.index) = 1
    /\ IndexSize(result.index) = 86401

(* C8: with reindex disabled an input of zero rows yields a table of zero  *)
(* rows, and no error, from every stage.                                   *)
C8_EmptyInputEmptyOutput ==
    (pc = "done" /\ df.rows = <<>> /\ ~args.cfg.reindex_interval) =>
        (~IsError(result) /\ TableRows(result) = 0)

SameTable(a, b) ==
    /\ a.index = b.index
    /\ a.columns = b.columns
    /\ \A t \in IndexSet(a.index) : \A c \in ColumnSet(a.columns) : Cell(a, t, c) = Cell(b, t, c)

(* C9: resample_speed_data run again on its own output, with the same      *)
(* window, reindex disabled, no rolling window, the full time frame and    *)
(* every column aggregated first-valid, returns a table equal to that      *)
(* output in every column.                                                 *)
C9_RerunReturnsSameTable ==
    pc = "rerun" => (~IsError(result2) /\ SameTable(result2, result))

(* a returned table that was smoothed and not reindexed *)
RollCase == ReturnedSingle /\ args.cfg.rolling_window > 0 /\ ~args.cfg.reindex_interval

RECURSIVE SumOver(_, _, _)
SumOver(res, c, U) ==
    IF U = {} THEN Num(0)
    ELSE LET u == CHOOSE x \in U : TRUE IN RatAdd(StampedCell(res, u, c), SumOver(res, c, U \ {u}))

(* the mean of the valid cells of column c over the rows before t that are *)
(* less than R before it, or exactly R before it when closedLeft           *)
MeanBefore(res, t, c, closedLeft) ==
    LET R == res.rolling_window
        U == {u \in IndexSet(res.full) :
                /\ u < t
                /\ (t - R < u \/ (closedLeft /\ t - R = u))
                /\ ~IsNaN(StampedCell(res, u, c))}
    IN IF U = {} THEN NaN ELSE RatDivInt(SumOver(res, c, U), Cardinality(U))

(* C10, as amended: with a rolling window of width R the smoothed value of *)
(* each aggregated column at the row of time t is the mean of the rows     *)
(* whose time lies in (t-R, t), open at both ends: the row exactly R       *)
(* before t and the row at t are both left out.                            *)
C10_MeanOfOpenWindow ==
    RollCase =>
        \A t \in IndexSet(result.index) : \A c \in ColumnSet(result.src.columns) :
            Cell(result, t, c) = MeanBefore(result, t, c, FALSE)

(* C10 witness: a returned row with a valid row exactly R before it whose  *)
(* value would change the mean                                             *)
C10_Witness ==
    /\ RollCase
    /\ \E t \in IndexSet(result.index) : \E c \in ColumnSet(result.src.columns) :
          /\ ValidAt(result.src, t - result.rolling_window, c)
          /\ ~IsNaN(Cell(result, t, c))
          /\ Cell(result, t, c) # MeanBefore(result, t, c, TRUE)

(* C10, as stated: the mean of the rows whose time lies in [t-R, t), the   *)
(* row exactly R before t included.                                        *)
C10_MeanOfLeftClosedWindow ==
    RollCase =>
        \A t \in IndexSet(result.index) : \A c \in ColumnSet(result.src.columns) :
            Cell(result, t, c) = MeanBefore(result, t, c, TRUE)

(* a call that returned the aggregated buckets of a non-empty input as they are *)
PlainRun ==
    /\ ReturnedSingle
    /\ ~args.cfg.reindex_interval
    /\ args.cfg.time_frame = <<0, 24>>
    /\ args.cfg.rolling_window = 0
    /\ df.rows # <<>>

InputTimes == {df.rows[i].time : i \in 1..Len(df.rows)}

WindowSeconds == args.cfg.window * 60

CeilDiv(a, b) == (a + b - 1) \div b

(* the calendar-aligned bucket starts from the one holding the earliest    *)
(* input instant to the one holding the latest                             *)
AlignedBuckets ==
    {b \in {k * WindowSeconds : k \in 0..(86400 \div WindowSeconds)} :
        b + WindowSeconds > Min(InputTimes) /\ b <= Max(InputTimes)}

(* C11, as amended: with reindex disabled, the full time frame and no      *)
(* rolling window the output has exactly one row per calendar-aligned      *)
(* bucket of width W from the bucket of the earliest input instant to the  *)
(* bucket of the latest, empty buckets included: the number of rows is     *)
(* floor(latest / W) - floor(earliest / W) + 1.                            *)
C11_OneRowPerAlignedBucket ==
    PlainRun =>
        /\ IndexSet(result.index) = AlignedBuckets
        /\ IndexSize(result.index) =
               (Max(InputTimes) \div WindowSeconds) - (Min(InputTimes) \div WindowSeconds) + 1

(* C11 witness: several input rows, a returned bucket without input rows,  *)
(* and a row count that is not ceil(span / W)                              *)
C11_Witness ==
    /\ PlainRun
    /\ Len(df.rows) >= 2
    /\ \E b \in IndexSet(result.index) : \A t \in InputTimes : ~(b <= t /\ t < b + WindowSeconds)
    /\ IndexSize(result.index) # CeilDiv(Max(InputTimes) - Min(InputTimes), WindowSeconds)

(* C11, as stated: the number of output rows is ceil(span / W), span the   *)
(* latest minus the earliest input instant.                                *)
C11_RowsAreCeilOfSpan ==
    PlainRun =>
        IndexSize(result.index) = CeilDiv(Max(InputTimes) - Min(InputTimes), WindowSeconds)

(* the same call with the full time frame *)
UnclippedResult ==
    IF fn = "resample_speed_data"
    THEN resample_speed_data(df, args.grouper, args.cfg.window, <<0, 24>>, args.cfg.reindex_interval,
                             args.cfg.fill_method, args.cfg.rolling_window)
    ELSE resample_edge_data(df, args.grouper, args.cfg.window, args.cfg.fill_method, <<0, 24>>,
                            args.cfg.reindex_interval, args.cfg.rolling_window)

FrameStart == args.cfg.time_frame[1] * 3600

FrameEnd == args.cfg.time_frame[2] * 3600

(* C12, as amended: the stages run in the order Aggregator, Normalizer,    *)
(* Smoother, Clipper: smoothing happens before the clip, so the returned   *)
(* rows are the rows inside the time frame of the table smoothed over the  *)
(* full time frame, with the same values.                                  *)
C12_ClipAfterSmoothing ==
    RollCase =>
        /\ IndexSet(result.index) =
               {t \in IndexSet(UnclippedResult.index) : FrameStart <= t /\ t <= FrameEnd}
        /\ \A t \in IndexSet(result.index) : \A c \in ColumnSet(result.columns) :
               Cell(result, t, c) = Cell(UnclippedResult, t, c)

(* the mean of the valid cells of column c over the rows inside the time   *)
(* frame that lie in the rolling window of the row at t                    *)
MeanInsideFrame(res, t, c) ==
    LET U == {u \in IndexSet(res.full) :
                /\ FrameStart <= u /\ u <= FrameEnd
                /\ t - res.rolling_window < u /\ u < t
                /\ ~IsNaN(StampedCell(res, u, c))}
    IN IF U = {} THEN NaN ELSE RatDivInt(SumOver(res, c, U), Cardinality(U))

(* C12 witness: a returned row whose smoothed value comes from a row       *)
(* before the start of the time frame                                      *)
C12_Witness ==
    /\ RollCase
    /\ \E t \in IndexSet(result.index) : \E c \in ColumnSet(result.src.columns) :
          /\ \E u \in IndexSet(result.full) :
                u < FrameStart /\ t - result.rolling_window < u /\ ValidAt(result.src, u, c)
          /\ ~IsNaN(Cell(result, t, c))
          /\ Cell(result, t, c) # MeanInsideFrame(result, t, c)

(* C12, as stated: the clip happens before smoothing, so the smoothed      *)
(* value of every returned row is computed only from rows inside the time  *)
(* frame.                                                                  *)
C12_SmoothedFromRowsInsideFrame ==
    RollCase =>
        \A t \in IndexSet(result.index) : \A c \in ColumnSet(result.src.columns) :
            Cell(result, t, c) = MeanInsideFrame(result, t, c)

====
